---- MODULE Spec2Model ----
(***************************************************************************)
(* Model of dags/raw_from_api_to_s3.py: the daily DAG that copies the USGS *)
(* earthquake CSV feed for one data interval into one Parquet object.      *)
(*                                                                         *)
(* Text is modelled as a sequence of string pieces whose concatenation is  *)
(* the text; a formatted date is a sequence of one-character strings.      *)
(* A datetime is [ts |-> hours since 1970-01-01T00:00Z, off |-> UTC offset *)
(* of its zone in hours].                                                  *)
(*                                                                         *)
(* Spec     the scheduler firing the DAG's runs, each executing the task   *)
(* SpecFair Spec with the scheduler never stopping while a step is possible*)
(* SpecCall the callable invoked directly with any interval                *)
(***************************************************************************)
EXTENDS Integers, Sequences, FiniteSets, TLC

VARIABLES
    state,      \* scheduler state of each firing (DAG run)
    tries,      \* retries already made for each firing
    wait,       \* hours left before a firing that failed may be retried
    started,    \* firings that have been started at least once
    call,       \* the latest execution of get_and_transfer_api_data_to_s3
    store,      \* the objects held by the S3 bucket
    succeeded,  \* windows for which an execution has returned normally
    calls       \* direct invocations of the callable made so far

vars == <<state, tries, wait, started, call, store, succeeded, calls>>

---------------------------------------------------------------------------
(* Bounds of the model *)

MaxFirings == 3
MaxCallSteps == 3
MaxCalls == 2

---------------------------------------------------------------------------
(* Configuration of the DAG *)

LAYER == "raw"
SOURCE == "earthquake"

\* Mutants of the configuration: one retry more, no catch-up, two active runs.
retries_one_more == 3 + 1
catchup_off == FALSE
max_active_runs_two == 1 + 1

\* args: "retries": 3, "retry_delay": pendulum.duration(hours=1) in hours,
\* "catchup": True as the DAG file declares it
retries == 3
retry_delay == 1
catchup == TRUE
max_active_runs == 1

\* start_date = pendulum.datetime(2025, 10, 20, tz="Europe/Moscow")
StartYear == 2025
StartMonth == 10
StartDay == 20
\* Europe/Moscow is UTC+3 all year
MoscowOffset == 3
\* schedule_interval "0 5 * * *": minute 0, hour 5, every day
CronHour == 5

---------------------------------------------------------------------------
(* Calendar arithmetic of the datetime library (proleptic Gregorian) *)

DaysFromCivil(y0, m, d) ==
    LET y   == IF m <= 2 THEN y0 - 1 ELSE y0
        era == y \div 400
        yoe == y - era * 400
        mp  == IF m > 2 THEN m - 3 ELSE m + 9
        doy == (153 * mp + 2) \div 5 + d - 1
        doe == yoe * 365 + yoe \div 4 - yoe \div 100 + doy
    IN  era * 146097 + doe - 719468

CivilFromDays(z0) ==
    LET z   == z0 + 719468
        era == z \div 146097
        doe == z - era * 146097
        yoe == (doe - doe \div 1460 + doe \div 36524 - doe \div 146096) \div 365
        doy == doe - (365 * yoe + yoe \div 4 - yoe \div 100)
        mp  == (5 * doy + 2) \div 153
        d   == doy - (153 * mp + 2) \div 5 + 1
        m   == IF mp < 10 THEN mp + 3 ELSE mp - 9
        y   == yoe + era * 400 + (IF m <= 2 THEN 1 ELSE 0)
    IN  [year |-> y, month |-> m, day |-> d]

\* The calendar day (days since 1970-01-01) a datetime shows in its own zone.
LocalDay(dt) == (dt.ts + dt.off) \div 24

\* The year, month and day fields of a datetime, in its own zone.
DateFields(dt) == CivilFromDays(LocalDay(dt))

Digits == <<"0", "1", "2", "3", "4", "5", "6", "7", "8", "9">>

RECURSIVE ZeroPad(_, _)
ZeroPad(n, width) ==
    IF width = 0 THEN <<>>
    ELSE ZeroPad(n \div 10, width - 1) \o <<Digits[(n % 10) + 1]>>

\* dt.format("YYYY-MM-DD"): the fields of dt in its own zone, zero-padded.
\* The mutant formats the month and leaves the day out.
FormatNoDay(dt) ==
    LET f == DateFields(dt)
    IN  ZeroPad(f.year, 4) \o <<"-">> \o ZeroPad(f.month, 2) \o <<"-">> \o <<"0", "1">>

format_YYYY_MM_DD(dt) ==
    LET f == DateFields(dt)
    IN  ZeroPad(f.year, 4) \o <<"-">> \o ZeroPad(f.month, 2) \o <<"-">> \o ZeroPad(f.day, 2)

---------------------------------------------------------------------------
(* get_dates *)

\* Mutant: the two results in the other order.
get_dates_swapped(context) ==
    << format_YYYY_MM_DD(context.data_interval_end),
       format_YYYY_MM_DD(context.data_interval_start) >>

get_dates(context) ==
    << format_YYYY_MM_DD(context.data_interval_start),
       format_YYYY_MM_DD(context.data_interval_end) >>

---------------------------------------------------------------------------
(* get_and_transfer_api_data_to_s3 *)

\* How the one con.sql(...) call of an execution ends: it returns, or it raises
\* while the engine is configured (INSTALL/LOAD httpfs, SET ...), while the CSV
\* is fetched from the API, or while the object is written to the bucket.
Outcomes == {"ok", "engine_error", "fetch_error", "write_error"}

SourceUrl(start_date, end_date) ==
    <<"https://earthquake.usgs.gov/fdsnws/event/1/query?format=csv&starttime=">>
        \o start_date \o <<"&endtime=">> \o end_date

DestPath(layer, source, start_date) ==
    <<"s3://prod/", layer, "/", source, "/">> \o start_date \o <<"/">>
        \o start_date \o <<"_00-00-00.gz.parquet">>

\* The COPY (SELECT * FROM read_csv_auto(<url>)) TO <path> statement, with a
\* mutant that keys the object by end_date.
CopyStatementEndKeyed(start_date, end_date) ==
    [source |-> SourceUrl(start_date, end_date),
     target |-> DestPath(LAYER, SOURCE, end_date)]

CopyStatement(start_date, end_date) ==
    [source |-> SourceUrl(start_date, end_date),
     target |-> DestPath(LAYER, SOURCE, start_date)]

\* The two log lines (without their leading pictograph).
LogStart(start_date, end_date) ==
    <<"Start load for dates: ">> \o start_date \o <<"/">> \o end_date

LogSuccess(start_date) == <<"Download for date success: ">> \o start_date

\* con.sql raises on every failure and nothing around it catches; the mutant
\* swallows the failure.
RaisesNever(outcome) == FALSE

Raises(outcome) == outcome # "ok"

\* The connection after the execution: con.close() is the statement after
\* con.sql(...), so it runs only when con.sql returned.
ConnectionAfter(outcome) == IF Raises(outcome) THEN "open" ELSE "closed"

\* One whole execution of the callable: what it computed, logged, read and
\* wrote, the state it left the connection in and how it ended.
get_and_transfer_api_data_to_s3(context, outcome) ==
    LET dates      == get_dates(context)
        start_date == dates[1]
        end_date   == dates[2]
        stmt       == CopyStatement(start_date, end_date)
    IN  [context   |-> context,
         outcome   |-> outcome,
         window    |-> dates,
         statement |-> stmt,
         logs      |-> <<LogStart(start_date, end_date)>>
                          \o (IF Raises(outcome) THEN <<>>
                              ELSE <<LogSuccess(start_date)>>),
         con       |-> ConnectionAfter(outcome),
         fetched   |-> outcome \in {"ok", "fetch_error", "write_error"},
         wrote     |-> outcome = "ok",
         result    |-> IF Raises(outcome) THEN "raised" ELSE "returned"]

\* Writing an object to the bucket replaces the object stored under its key.
Put(objects, obj) == {o \in objects : o.path # obj.path} \cup {obj}

\* How many times the key has been written so far.
Writes(objects, path) ==
    IF \E o \in objects : o.path = path
    THEN (CHOOSE o \in objects : o.path = path).writes
    ELSE 0

\* The bucket after an execution. An object is its key, the URL its rows were
\* read from, the window it was written for and the number of writes of the key.
StoreAfter(objects, exec) ==
    IF exec.wrote
    THEN Put(objects, [path   |-> exec.statement.target,
                       source |-> exec.statement.source,
                       window |-> exec.window,
                       writes |-> Writes(objects, exec.statement.target) + 1])
    ELSE objects

SucceededAfter(windows, exec) ==
    IF exec.result = "returned" THEN windows \cup {exec.window} ELSE windows

---------------------------------------------------------------------------
(* The schedule: one firing per day since start_date *)

Firings == 1..MaxFirings

UTC == 0

\* start_date as an instant
StartTs == DaysFromCivil(StartYear, StartMonth, StartDay) * 24 - MoscowOffset

\* The first time the cron expression matches at or after start_date; the
\* expression is evaluated in the zone of start_date.
FirstCron ==
    LET atDay == DaysFromCivil(StartYear, StartMonth, StartDay) * 24
                     + CronHour - MoscowOffset
    IN  IF atDay >= StartTs THEN atDay ELSE atDay + 24

\* The data interval of the i-th firing; the scheduler hands them over in UTC.
Context(i) ==
    [data_interval_start |-> [ts |-> FirstCron + 24 * (i - 1), off |-> UTC],
     data_interval_end   |-> [ts |-> FirstCron + 24 * i, off |-> UTC]]

\* The contexts the callable may be invoked with directly: every pair of
\* instants, in either order, a few hours apart around a change of year.
CallBase == DaysFromCivil(2025, 12, 31) * 24 + 13

CallInstants == {CallBase + 11 * k : k \in 0..MaxCallSteps}

CallZones == {UTC, MoscowOffset}

\* Each boundary of an interval carries its own zone.
CallContexts ==
    {[data_interval_start |-> [ts |-> a, off |-> za],
      data_interval_end   |-> [ts |-> b, off |-> zb]] :
        a \in CallInstants, b \in CallInstants,
        za \in CallZones, zb \in CallZones}

\* Every execution the model can make, computed once.
Executions ==
    [context \in {Context(i) : i \in Firings} \cup CallContexts, outcome \in Outcomes
        |-> get_and_transfer_api_data_to_s3(context, outcome)]

NoCall ==
    [firing |-> 0, context |-> Context(1), outcome |-> "none",
     window |-> <<>>, statement |-> [source |-> <<>>, target |-> <<>>],
     logs |-> <<>>, con |-> "none", fetched |-> FALSE, wrote |-> FALSE,
     result |-> "none"]

Execution(i, context, outcome) ==
    [firing |-> i] @@ Executions[context, outcome]

Init ==
    /\ state = [i \in Firings |-> "none"]
    /\ tries = [i \in Firings |-> 0]
    /\ wait = [i \in Firings |-> 0]
    /\ started = {}
    /\ call = NoCall
    /\ store = {}
    /\ succeeded = {}
    /\ calls = 0

Active == {i \in Firings : state[i] \in {"running", "retrying"}}

\* A cron firing creates the run of its interval. With catch-up every interval
\* since start_date gets its run, in order; without it the intervals already
\* missed are skipped.
Schedule(i) ==
    /\ state[i] = "none"
    /\ \A j \in Firings : j > i => state[j] = "none"
    /\ catchup => \A j \in Firings : j < i => state[j] # "none"
    /\ state' = [state EXCEPT ![i] = "queued"]
    /\ UNCHANGED <<tries, wait, started, call, store, succeeded, calls>>

\* The scheduler starts the earliest queued run while fewer than
\* max_active_runs runs are active.
Start(i) ==
    /\ state[i] = "queued"
    /\ \A j \in Firings : state[j] = "queued" => i <= j
    /\ Cardinality(Active) < max_active_runs
    /\ state' = [state EXCEPT ![i] = "running"]
    /\ started' = started \cup {i}
    /\ UNCHANGED <<tries, wait, call, store, succeeded, calls>>

\* How the scheduler records the end of an execution: success, a retry after
\* retry_delay while retries are left, failure once they are used up.
StateAfter(result, tried) ==
    IF result = "returned" THEN "success"
    ELSE IF tried < retries THEN "retrying"
    ELSE "failed"

WaitAfter(result, tried) ==
    IF result = "raised" /\ tried < retries THEN retry_delay ELSE 0

\* The PythonOperator of the running firing executes the callable with the
\* firing's context, and the scheduler records how it ended.
Execute(i, outcome) ==
    /\ state[i] = "running"
    /\ LET exec == Execution(i, Context(i), outcome)
       IN  /\ call' = exec
           /\ store' = StoreAfter(store, exec)
           /\ succeeded' = SucceededAfter(succeeded, exec)
           /\ state' = [state EXCEPT ![i] = StateAfter(exec.result, tries[i])]
           /\ wait' = [wait EXCEPT ![i] = WaitAfter(exec.result, tries[i])]
    /\ UNCHANGED <<tries, started, calls>>

\* An hour passes.
Tick ==
    /\ \E i \in Firings : wait[i] > 0
    /\ wait' = [i \in Firings |-> IF wait[i] > 0 THEN wait[i] - 1 ELSE 0]
    /\ UNCHANGED <<state, tries, started, call, store, succeeded, calls>>

\* A firing whose retry delay has passed runs again.
Retry(i) ==
    /\ state[i] = "retrying"
    /\ wait[i] = 0
    /\ state' = [state EXCEPT ![i] = "running"]
    /\ tries' = [tries EXCEPT ![i] = tries[i] + 1]
    /\ UNCHANGED <<wait, started, call, store, succeeded, calls>>

Next ==
    \/ \E i \in Firings : Schedule(i)
    \/ \E i \in Firings : Start(i)
    \/ \E i \in Firings, outcome \in Outcomes : Execute(i, outcome)
    \/ Tick
    \/ \E i \in Firings : Retry(i)

Spec == Init /\ [][Next]_vars

\* The scheduler loop keeps running: a step that stays possible is taken.
SpecFair == Spec /\ WF_vars(Next)

---------------------------------------------------------------------------
(* The callable invoked directly with any context *)

Call(context, outcome) ==
    /\ calls < MaxCalls
    /\ calls' = calls + 1
    /\ LET exec == Execution(0, context, outcome)
       IN  /\ call' = exec
           /\ store' = StoreAfter(store, exec)
           /\ succeeded' = SucceededAfter(succeeded, exec)
    /\ UNCHANGED <<state, tries, wait, started>>

NextCall == \E context \in CallContexts, outcome \in Outcomes : Call(context, outcome)

SpecCall == Init /\ [][NextCall]_vars

---------------------------------------------------------------------------
(* Reading formatted text *)

IsDigit(c) == \E k \in 1..10 : Digits[k] = c

DigitValue(c) == (CHOOSE k \in 1..10 : Digits[k] = c) - 1

\* Code point of a character of a formatted date
Ord(c) == IF c = "-" THEN 45 ELSE 48 + DigitValue(c)

\* s is of the shape YYYY-MM-DD
IsYMD(s) ==
    /\ Len(s) = 10
    /\ \A k \in 1..10 : IF k \in {5, 8} THEN s[k] = "-" ELSE IsDigit(s[k])

RECURSIVE ParseNum(_)
ParseNum(s) ==
    IF s = <<>> THEN 0
    ELSE 10 * ParseNum(SubSeq(s, 1, Len(s) - 1)) + DigitValue(s[Len(s)])

ParseDate(s) ==
    [year  |-> ParseNum(SubSeq(s, 1, 4)),
     month |-> ParseNum(SubSeq(s, 6, 7)),
     day   |-> ParseNum(SubSeq(s, 9, 10))]

\* s < t in the order of strings
StrLess(s, t) ==
    \/ \E k \in 1..Len(s) :
          /\ k <= Len(t)
          /\ \A j \in 1..(k - 1) : s[j] = t[j]
          /\ Ord(s[k]) < Ord(t[k])
    \/ /\ Len(s) < Len(t)
       /\ \A j \in 1..Len(s) : s[j] = t[j]

StrLeq(s, t) == s = t \/ StrLess(s, t)

Executed == call.result # "none"

IntervalStart == call.context.data_interval_start

IntervalEnd == call.context.data_interval_end

HasSuccessLog(exec) ==
    \E k \in 1..Len(exec.logs) : exec.logs[k][1] = "Download for date success: "

---------------------------------------------------------------------------
(* Claims *)

\* C1: whenever an execution of the task has terminated, by returning or by a
\* failure raised in con.sql, the connection it opened is closed.
C1_ConnectionReleased ==
    call.result \in {"returned", "raised"} => call.con = "closed"

\* C2: an execution whose interval has interval_end <= interval_start fails
\* with InvalidWindowError before a connection is opened, the API is read or
\* the bucket is written.
C2_InvalidWindowRejected ==
    (Executed /\ IntervalEnd.ts <= IntervalStart.ts)
        => /\ call.result = "InvalidWindowError"
           /\ call.con = "none"
           /\ ~call.fetched
           /\ ~call.wrote

\* C3: an execution in which con.sql fails ends by raising, never logs success,
\* and its firing is not marked succeeded.
C3_FailurePropagates ==
    (Executed /\ call.outcome # "ok")
        => /\ call.result = "raised"
           /\ ~HasSuccessLog(call)
           /\ call.firing \in Firings => state[call.firing] # "success"

C3_Witness ==
    /\ call.outcome = "fetch_error"
    /\ call.firing \in Firings
    /\ state[call.firing] \in {"retrying", "failed"}

\* C4: the bucket holds exactly one object for every start_date for which an
\* execution has returned, however many executions wrote it, and objects
\* written for the same start_date share one path.
C4_OneObjectPerWindow ==
    /\ \A w \in succeeded : Cardinality({o \in store : o.window[1] = w[1]}) = 1
    /\ \A o1, o2 \in store : o1.window[1] = o2.window[1] => o1.path = o2.path
    /\ Cardinality(store) = Cardinality({w[1] : w \in succeeded})

C4_Witness ==
    /\ calls = 2
    /\ Cardinality(succeeded) = 1
    /\ \E o \in store : o.writes = 2 /\ o.window \in succeeded

\* C5: no two firings are running together, and a firing waiting for its retry
\* keeps every other firing from running.
C5_OneActiveFiring ==
    /\ Cardinality({i \in Firings : state[i] = "running"}) <= 1
    /\ Cardinality(Active) <= 1

C5_Witness ==
    \E i, j, k \in Firings :
        /\ state[i] = "running" /\ tries[i] > 0
        /\ state[j] = "queued"
        /\ state[k] = "queued"
        /\ j # k

\* C6: a failing firing goes running -> retrying -> running with an hour
\* between failure and retry, is retried at most 3 times, is marked failed
\* only when the 3 retries are used up, and every firing eventually ends
\* succeeded or failed.
C6_RetryPolicy ==
    /\ [](\A i \in Firings : /\ tries[i] <= 3
                             /\ state[i] = "failed" => tries[i] = 3)
    /\ [][\A i \in Firings :
            /\ (state[i] = "running" /\ state'[i] # "running")
                   => state'[i] \in {"success", "retrying", "failed"}
            /\ (state[i] # "retrying" /\ state'[i] = "retrying")
                   => (state[i] = "running" /\ wait'[i] = 1)
            /\ (state[i] = "retrying" /\ state'[i] # "retrying")
                   => /\ state'[i] = "running"
                      /\ tries'[i] = tries[i] + 1
                      /\ wait[i] = 0
            /\ state[i] \in {"success", "failed"} => state'[i] = state[i]]_vars
    /\ \A i \in Firings : <>(state[i] \in {"success", "failed"})

C6_Witness ==
    \E i \in Firings : state[i] = "failed" /\ tries[i] = 3 /\ call.firing = i

\* An interval as the scheduler hands it over: both boundaries in one zone.
SchedulerInterval == IntervalStart.off = IntervalEnd.off

\* C7: for a scheduler interval a < b (both boundaries in one zone) the window
\* is two dates of the shape YYYY-MM-DD, the first the calendar date of a and
\* the second that of b, first <= second.
C7_WindowFormat ==
    (Executed /\ SchedulerInterval /\ IntervalStart.ts < IntervalEnd.ts)
        => /\ IsYMD(call.window[1])
           /\ IsYMD(call.window[2])
           /\ ParseDate(call.window[1]) = DateFields(IntervalStart)
           /\ ParseDate(call.window[2]) = DateFields(IntervalEnd)
           /\ StrLeq(call.window[1], call.window[2])

C7_Witness ==
    /\ Executed
    /\ SchedulerInterval
    /\ IntervalStart.ts < IntervalEnd.ts
    /\ call.window = << <<"2", "0", "2", "5", "-", "1", "2", "-", "3", "1">>,
                        <<"2", "0", "2", "6", "-", "0", "1", "-", "0", "1">> >>

\* C8: the window of every execution invoked with an interval a < b has
\* start_date < end_date strictly, also when a and b are on one calendar date.
C8_StrictWindowAlways ==
    (Executed /\ IntervalStart.ts < IntervalEnd.ts)
        => StrLess(call.window[1], call.window[2])

\* C9: the firings that have started are always the earliest ones, so no
\* firing starts before every firing of an earlier interval has started, and
\* at most one firing is active.
C9_CatchupOrder ==
    /\ \A i \in started : \A j \in Firings : j < i => j \in started
    /\ Cardinality(Active) <= 1

C9_Witness ==
    /\ started = Firings
    /\ \E i \in Firings : state[i] = "running"

\* C10: firings of different intervals have different start_dates and paths,
\* every window that succeeded keeps its own object, and the bucket holds as
\* many objects as windows have succeeded.
C10_IndependentPaths ==
    /\ \A i, j \in Firings :
          i # j => /\ get_dates(Context(i))[1] # get_dates(Context(j))[1]
                   /\ DestPath(LAYER, SOURCE, get_dates(Context(i))[1])
                         # DestPath(LAYER, SOURCE, get_dates(Context(j))[1])
    /\ \A w \in succeeded : \E o \in store : o.window = w
    /\ Cardinality(store) = Cardinality(succeeded)

C10_Witness ==
    /\ Cardinality(succeeded) >= 2
    /\ \E i \in Firings : state[i] = "success" /\ tries[i] > 0

====
